---- MODULE Spec2Model ----
(***************************************************************************)
(* Model of the Barchart news harvester, src/U1.py: fetch_barchart_news    *)
(* and the window calculation it calls.  One harvest is one call of        *)
(* fetch_barchart_news; the actions are the steps of that call, cut at the *)
(* blocking calls (the page request) and at the iterations of its loops.   *)
(***************************************************************************)
EXTENDS Integers, Sequences, FiniteSets, TLC

(***************************************************************************)
(* Bounds of the model.                                                    *)
(***************************************************************************)
\* The loop's safety limit.  src/U1.py:33 sets 500; the model runs the same
\* loop with a small limit.
MAX_API_CALLS == 3
\* The news_count_limit argument of fetch_barchart_news (src/U1.py:146).
news_count_limit == 1
\* Story divs in one page: 0..MaxStories.
MaxStories == 2

(***************************************************************************)
(* Optional values: Python's None is the empty tuple, a value v is <<v>>.  *)
(***************************************************************************)
None == <<>>
Some(v) == <<v>>
Val(o) == o[1]
\* Python truthiness of an optional integer: None and 0 are false.
Truthy(o) == o # None /\ Val(o) # 0


(***************************************************************************)
(* date_str_to_timestamps_for_day.  A date string is a tuple of decimal     *)
(* digits.  strptime('%Y%m%d') matches the string against the regular      *)
(* expression (\d\d\d\d)(1[0-2]|0[1-9]|[1-9])(3[01]|[12]\d|0[1-9]|[1-9]),    *)
(* raises ValueError when it does not match, when the match leaves a rest  *)
(* of the string, or when the three numbers do not name a date of the      *)
(* proleptic Gregorian calendar with year >= 1.                            *)
(***************************************************************************)
CDT_OFFSET_SECONDS == 18000
SECONDS_PER_DAY == 86400
EPOCH_ORDINAL == 719163

IsLeap(y) == (y % 4 = 0) /\ ((y % 100 # 0) \/ (y % 400 = 0))

DaysInMonth(y, m) ==
  IF m = 2 THEN (IF IsLeap(y) THEN 29 ELSE 28)
  ELSE IF m \in {4, 6, 9, 11} THEN 30 ELSE 31

RECURSIVE DaysBeforeMonth(_, _)
DaysBeforeMonth(y, m) ==
  IF m = 1 THEN 0 ELSE DaysBeforeMonth(y, m - 1) + DaysInMonth(y, m - 1)

\* datetime's ordinal of a date: 1 for 0001-01-01.
ToOrdinal(y, m, d) ==
  LET p == y - 1
  IN  p * 365 + (p \div 4) - (p \div 100) + (p \div 400) + DaysBeforeMonth(y, m) + d

\* The digit at position i of s, or -1 past its end.
DigitAt(s, i) == IF i <= Len(s) THEN s[i] ELSE -1

\* The month group matches n characters at position 5: 1[0-2] or 0[1-9]
\* for n = 2, [1-9] for n = 1.
MonthMatches(s, n) ==
  IF n = 2
  THEN \/ (DigitAt(s, 5) = 1 /\ DigitAt(s, 6) \in 0..2)
       \/ (DigitAt(s, 5) = 0 /\ DigitAt(s, 6) \in 1..9)
  ELSE DigitAt(s, 5) \in 1..9

\* The day group matches n characters at position p: 3[01], [12]\d or
\* 0[1-9] for n = 2, [1-9] for n = 1.
DayMatches(s, p, n) ==
  IF n = 2
  THEN \/ (DigitAt(s, p) = 3 /\ DigitAt(s, p + 1) \in 0..1)
       \/ (DigitAt(s, p) \in 1..2 /\ DigitAt(s, p + 1) \in 0..9)
       \/ (DigitAt(s, p) = 0 /\ DigitAt(s, p + 1) \in 1..9)
  ELSE DigitAt(s, p) \in 1..9

\* The lengths of the month and day groups of the match the regular
\* expression finds: the alternatives are tried in their order, the month's
\* again when no day follows.  None when there is no match.
StrptimeMatch(s) ==
  IF Len(s) < 4 THEN None
  ELSE IF MonthMatches(s, 2) /\ DayMatches(s, 7, 2) THEN <<2, 2>>
  ELSE IF MonthMatches(s, 2) /\ DayMatches(s, 7, 1) THEN <<2, 1>>
  ELSE IF MonthMatches(s, 1) /\ DayMatches(s, 6, 2) THEN <<1, 2>>
  ELSE IF MonthMatches(s, 1) /\ DayMatches(s, 6, 1) THEN <<1, 1>>
  ELSE None

\* The number a group of n digits at position p spells.
GroupValue(s, p, n) == IF n = 2 THEN s[p] * 10 + s[p + 1] ELSE s[p]

DateYear(s) == s[1] * 1000 + s[2] * 100 + s[3] * 10 + s[4]
DateMonth(s) == GroupValue(s, 5, StrptimeMatch(s)[1])
DateDay(s) == GroupValue(s, 5 + StrptimeMatch(s)[1], StrptimeMatch(s)[2])

\* strptime succeeds (src/U1.py:85); otherwise ValueError (src/U1.py:99).
StrptimeOk(s) ==
  /\ StrptimeMatch(s) # None
  /\ 4 + StrptimeMatch(s)[1] + StrptimeMatch(s)[2] = Len(s)
  /\ DateYear(s) >= 1
  /\ DateDay(s) <= DaysInMonth(DateYear(s), DateMonth(s))

\* int() of a float whose fraction is f = 0.999999 and whose floor is x:
\* Python truncates toward zero.
IntOfFloatJustBelowNext(x) == IF x >= 0 THEN x ELSE x + 1

\* The pair (start_timestamp, end_timestamp), or (None, None).
date_str_to_timestamps_for_day(s) ==
  IF ~StrptimeOk(s) THEN [start |-> None, end |-> None]
  ELSE LET midnight == (ToOrdinal(DateYear(s), DateMonth(s), DateDay(s)) - EPOCH_ORDINAL)
                          * SECONDS_PER_DAY + CDT_OFFSET_SECONDS
       IN  [start |-> Some(midnight),
            end   |-> Some(IntOfFloatJustBelowNext(midnight + SECONDS_PER_DAY - 1))]

(***************************************************************************)
(* Inputs of a harvest.                                                    *)
(***************************************************************************)
\* target_date_str: absent (unbounded mode), a valid day, an invalid day.
NoDate == <<>>
Date20250611 == <<2, 0, 2, 5, 0, 6, 1, 1>>
Date20250631 == <<2, 0, 2, 5, 0, 6, 3, 1>>
TargetDates == {NoDate, Date20250611, Date20250631}

\* The clock read at src/U1.py:163 in unbounded mode.
ClockNow == 1749700000

(***************************************************************************)
(* parse_date_string_to_timestamp.  A date text is given by what           *)
(* dateutil's parser reads in it: the year if it names one, the month and  *)
(* the day, the hour and minute if it holds a clock time, the AM or PM     *)
(* token if any, the UTC offset in seconds if it names one, and whether    *)
(* all its words are known to the parser.  No weekday or month name holds  *)
(* the letters "am" or "pm", so that the text holds them exactly when it   *)
(* holds the token.                                                        *)
(***************************************************************************)
\* datetime.datetime.now().year (src/U1.py:115), which is also the year
\* dateutil gives a text that names none.
CurrentYear ==
  CHOOSE y \in 1970..2100 :
    /\ (ToOrdinal(y, 1, 1) - EPOCH_ORDINAL) * SECONDS_PER_DAY <= ClockNow
    /\ ClockNow < (ToOrdinal(y + 1, 1, 1) - EPOCH_ORDINAL) * SECONDS_PER_DAY

\* dateutil.parser.parse (src/U1.py:121): the datetime it returns, or None
\* where it raises: an unknown word, AM or PM without an hour or with an
\* hour past 12, a day the month does not have.
DateutilParse(t) ==
  IF ~t.words_known THEN None
  ELSE IF t.ampm # "" /\ (t.hour = None \/ Val(t.hour) > 12) THEN None
  ELSE LET year == IF t.year = None THEN CurrentYear ELSE Val(t.year)
           hour == IF t.hour = None THEN 0
                   ELSE IF t.ampm = "PM" /\ Val(t.hour) < 12 THEN Val(t.hour) + 12
                   ELSE IF t.ampm = "AM" /\ Val(t.hour) = 12 THEN 0
                   ELSE Val(t.hour)
       IN  IF t.day > DaysInMonth(year, t.month) THEN None
           ELSE Some([year |-> year, month |-> t.month, day |-> t.day,
                      hour |-> hour, minute |-> t.minute, tzoffset |-> t.tzoffset])

\* src/U1.py:129: the lower-cased text holds "am" or "pm".
HasAmOrPm(t) == t.ampm # ""

\* src/U1.py:124-130: the parsed time is naive and the text holds neither
\* "am" nor "pm": the time of day becomes 12:00:00.
ReplacedByNoon(t, dt) == dt.tzoffset = None /\ ~HasAmOrPm(t)

\* src/U1.py:110-143.
parse_date_string_to_timestamp(t) ==
  IF t = <<>> THEN None
  ELSE IF DateutilParse(t) = None THEN None
  ELSE LET dt == Val(DateutilParse(t))
           offset == IF dt.tzoffset = None THEN 0 - CDT_OFFSET_SECONDS ELSE Val(dt.tzoffset)
           hour == IF ReplacedByNoon(t, dt) THEN 12 ELSE dt.hour
           minute == IF ReplacedByNoon(t, dt) THEN 0 ELSE dt.minute
           year == IF dt.year = 1900 THEN CurrentYear ELSE dt.year
       IN  Some((ToOrdinal(year, dt.month, dt.day) - EPOCH_ORDINAL) * SECONDS_PER_DAY
                  + hour * 3600 + minute * 60 - offset)

\* The date texts of the model: with and without a year, the year 1900, a
\* day February has only in leap years, with and without a clock time, in
\* 12-hour and 24-hour form, with and without an offset.
DateTexts ==
  {t \in [year : {None, Some(1900), Some(2023), Some(2024)},
          month : {2, 6},
          day : {10, 29},
          hour : {None, Some(0), Some(5), Some(12), Some(19)},
          minute : {0, 48},
          ampm : {"", "AM", "PM"},
          tzoffset : {None, Some(0)},
          words_known : BOOLEAN] :
     t.hour = None => (t.minute = 0 /\ t.tzoffset = None)}

\* The windows of the target dates, computed once.
TargetDayWindows ==
  [d \in TargetDates \ {NoDate} |-> date_str_to_timestamps_for_day(d)]
HasWindow(date) ==
  date \in DOMAIN TargetDayWindows /\ TargetDayWindows[date].start # None

\* Instants the feed may report as item times: around the window's two ends
\* in windowed mode, up to the clock otherwise.
ItemInstants(date) ==
  IF HasWindow(date)
  THEN LET w == TargetDayWindows[date]
       IN  {Val(w.start) - 1, Val(w.start), Val(w.end), Val(w.end) + 1}
  ELSE {ClockNow - 1, ClockNow}

\* Instants the feed may report in its 'timestamp' field: the item instants
\* and one instant later than every 'before' value of the harvest.
HintInstants(date) ==
  IF HasWindow(date)
  THEN ItemInstants(date) \cup {Val(TargetDayWindows[date].end) + 2}
  ELSE ItemInstants(date) \cup {ClockNow + 1}

\* The news ids the feed's URLs carry: two, so that pages can repeat one.
Ids == {1, 2}

FeedNames == {"Barchart", "BARCHART", "Associated Press"}
\* str.lower() on the feed names of the model.
Lower(name) ==
  CASE name = "Barchart" -> "barchart"
    [] name = "BARCHART" -> "barchart"
    [] name = "Associated Press" -> "associated press"

\* The 'timestamp' field of a response: absent (or empty), a string that is
\* a decimal number, a string that is not.
TimestampStrs(date) ==
  {[kind |-> "absent", val |-> 0], [kind |-> "text", val |-> 0]}
    \cup {[kind |-> "digits", val |-> n] : n \in HintInstants(date)}

\* One <div class="story clearfix"> of a page, as the loop reads it.  A div
\* without the link or without the meta tag carries nothing else the loop
\* reads.  A div with both carries the id its URL yields, the feed name of
\* its meta text, and the value parse_date_string_to_timestamp returns for
\* the rest of the meta text.
DivWithoutLinkOrMeta ==
  [has_link_and_meta |-> FALSE, news_id |-> None, feed_name |-> "Barchart", item_ts |-> None]

StoryDivs(date) ==
  {DivWithoutLinkOrMeta} \cup
  [has_link_and_meta : {TRUE},
   news_id : {None} \cup {Some(i) : i \in Ids},
   feed_name : FeedNames,
   item_ts : {None} \cup {Some(t) : t \in ItemInstants(date)}]

(***************************************************************************)
(* State.                                                                  *)
(***************************************************************************)
VARIABLES
  pc,                       \* position in fetch_barchart_news: "start"; "aborted"
                            \* (return [] at src/U1.py:155 or 171); "loop" (the
                            \* while test); "awaiting" (session.post); "stories"
                            \* (the for loop); "after_batch" (src/U1.py:301);
                            \* "done" (return at src/U1.py:351)
  target_date_str,          \* argument
  target_day_start_ts,
  target_day_end_ts,
  current_before_timestamp,
  stop_fetching,
  processed_news_ids,
  api_call_num,
  all_news_items,
  response_json,            \* the page in hand: content kind and 'timestamp'
  stories_left,             \* story divs of the page not yet read
  earliest_valid_ts_in_batch_for_fallback,
  result,                   \* the returned list
  requests,                 \* history: the 'before' value of every request sent
  delays,                   \* history: number of time.sleep calls
  prev_timestamp,           \* history, while a request is in flight: the 'timestamp'
                            \* field of the page processed before it
  older_seen_on,            \* history: the call that met an item older than the window
  expected,                 \* history: the items the harvest is to keep, in feed order
  handshake_failed,         \* history: get_initial_cookies_and_xsrf was called and
                            \* returned None
  failed_fetch,             \* history: the call whose fetch failed, and the items
                            \* kept when it failed
  last_div,                 \* history: the kind of the story div read last in the
                            \* page in hand
  last_ts,                  \* history: the time of that div, when the loop has
                            \* resolved one (current_item_ts_utc)
  calls,                    \* history: the calls of fetch_barchart_news so far
  date_str,                 \* parse_date_string_to_timestamp: the argument
  parse_result,             \* parse_date_string_to_timestamp: the value returned
  lines_left,               \* parse_file (src/U3.py): the number of lines of the
                            \* file not yet read
  current_section,
  current_category,
  current_commodity,        \* None, or the place of the dict in data.commodities:
                            \* the category and the index in its list
  current_list,
  data,                     \* self.data
  branch,                   \* history: the branch of the if/elif chain the line
                            \* read last has taken
  parse_error,              \* history: the exception parse_file has raised
  DEEPSEEK_API_KEY,         \* src/U2.py: the key is configured
  api_call,                 \* what client.chat.completions.create is to do
  file_system_ok,           \* open(briefing_filepath, 'w') is to succeed
  briefing_pc,              \* position in main (src/U2.py): "idle", "calling",
                            \* "naming", "writing", "end"
  briefing_text,
  briefing_filename,
  files                     \* the briefing files written, by name

vars == <<pc, target_date_str, target_day_start_ts,
          target_day_end_ts, current_before_timestamp, stop_fetching,
          processed_news_ids, api_call_num, all_news_items, response_json,
          stories_left, earliest_valid_ts_in_batch_for_fallback, result,
          requests, delays, prev_timestamp, older_seen_on, expected,
          handshake_failed, failed_fetch, last_div, last_ts, calls,
          date_str, parse_result,
          lines_left, current_section, current_category, current_commodity,
          current_list, data, branch, parse_error,
          DEEPSEEK_API_KEY, api_call, file_system_ok, briefing_pc, briefing_text,
          briefing_filename, files>>

\* parse_date_string_to_timestamp: no argument yet; not returned yet.
NoText == <<>>
NotReturned == [returned |-> FALSE, value |-> None]

NoResponse == [content |-> "none", timestamp |-> [kind |-> "absent", val |-> 0]]

\* The state of a call of fetch_barchart_news with target_date_str in dates.
HarvestInitWith(dates) ==
  /\ pc = "start"
  /\ target_date_str \in dates
  /\ target_day_start_ts = None
  /\ target_day_end_ts = None
  /\ current_before_timestamp = 0
  /\ stop_fetching = FALSE
  /\ processed_news_ids = {}
  /\ api_call_num = 0
  /\ all_news_items = <<>>
  /\ response_json = NoResponse
  /\ stories_left = 0
  /\ earliest_valid_ts_in_batch_for_fallback = None
  /\ result = <<>>
  /\ requests = <<>>
  /\ delays = 0
  /\ prev_timestamp = None
  /\ older_seen_on = None
  /\ expected = <<>>
  /\ handshake_failed = FALSE
  /\ failed_fetch = None
  /\ last_div = None
  /\ last_ts = None
  /\ calls = 1

\* src/U3.py:27-36, 47-50: self.data as __init__ makes it, and the locals of
\* parse_file before the first line.  The text of a line is stood for by a
\* number, 0 for the empty string and for "N/A"; the dict of the categories
\* is the sequence of its entries in insertion order.
EmptyData ==
  [date |-> 0,
   commodities |-> <<>>,
   summary |-> [key_themes |-> <<>>, risks_highlighted |-> <<>>, watch_next |-> <<>>],
   classification_table |-> <<>>]

ReportInitWith(lengths) ==
  /\ lines_left \in lengths
  /\ current_section = None
  /\ current_category = None
  /\ current_commodity = None
  /\ current_list = None
  /\ data = EmptyData
  /\ branch = None
  /\ parse_error = None

\* No file is given to parse_file.
ReportIdle == ReportInitWith({0})

\* src/U2.py: main has not reached the call of get_briefing_from_deepseek.
NoApiCall == [raises |-> FALSE, text |-> <<>>]
BriefingIdle ==
  /\ DEEPSEEK_API_KEY = FALSE
  /\ api_call = NoApiCall
  /\ file_system_ok = TRUE
  /\ briefing_pc = "idle"
  /\ briefing_text = <<>>
  /\ briefing_filename = None
  /\ files = <<>>

InitWith(dates) ==
  /\ HarvestInitWith(dates)
  /\ date_str = NoText
  /\ parse_result = NotReturned
  /\ ReportIdle
  /\ BriefingIdle

Init == InitWith(TargetDates)

(***************************************************************************)
(* The decisions of fetch_barchart_news, one operator per test of the code.*)
(***************************************************************************)
\* Mutants of the while condition: the safety limit off by one, and absent.
LoopCondition_OffByOne == ~stop_fetching /\ api_call_num < MAX_API_CALLS - 1
LoopCondition_NoLimit == ~stop_fetching

\* src/U1.py:193, the while condition.
LoopCondition == ~stop_fetching /\ api_call_num < MAX_API_CALLS

\* Mutant: an item at the very start of the target day counts as older.
IsOlderThanTarget_OrEqual(ts) ==
  Truthy(target_day_start_ts) /\ ts <= Val(target_day_start_ts)

\* src/U1.py:280: the item is older than the target day's start.
IsOlderThanTarget(ts) == Truthy(target_day_start_ts) /\ ts < Val(target_day_start_ts)

\* Mutant: an item newer than the target day stops the harvest too.
StopAfterItem_AlsoNewer(ts) ==
  IF IsOlderThanTarget(ts) \/ (target_date_str # NoDate /\ ts > Val(target_day_end_ts))
  THEN TRUE ELSE stop_fetching

\* Mutant: the break without the flag.
StopAfterItem_FlagNotSet(ts) == stop_fetching

\* src/U1.py:283: the flag after an item with time ts has been tested.
StopAfterItem(ts) == IF IsOlderThanTarget(ts) THEN TRUE ELSE stop_fetching

\* Mutant: the upper end of the target day is not tested.
InTargetRange_NoUpperEnd(ts) ==
  \/ target_date_str = NoDate
  \/ Val(target_day_start_ts) <= ts

\* Mutant: the range is not tested at the append.
InTargetRange_Always(ts) == TRUE

\* Mutant: without a target date nothing is in range.
InTargetRange_WindowedOnly(ts) ==
  /\ target_date_str # NoDate
  /\ Val(target_day_start_ts) <= ts
  /\ ts <= Val(target_day_end_ts)

\* src/U1.py:287: no target date, or the item lies in the target day.
InTargetRange(ts) ==
  \/ target_date_str = NoDate
  \/ (Val(target_day_start_ts) <= ts /\ ts <= Val(target_day_end_ts))

\* Mutant: the id is not looked up in processed_news_ids.
ShouldAppend_NoLookup(id, ts) == InTargetRange(ts)

\* src/U1.py:286-287: the item is appended to all_news_items.
ShouldAppend(id, ts) == id \notin processed_news_ids /\ InTargetRange(ts)

NewsItem(id, ts) == [id |-> id, published_timestamp_utc |-> ts]

\* Mutant: the new item is put at the head of the list.
AppendItem_AtHead(id, ts) == <<NewsItem(id, ts)>> \o all_news_items

\* src/U1.py:290-297: all_news_items.append.
AppendItem(id, ts) == Append(all_news_items, NewsItem(id, ts))

\* Mutant: every id that reaches the lookup is marked seen, kept or not.
SeenAfter_WhenExamined(id, ts) == processed_news_ids \cup {id}

\* src/U1.py:286-298: processed_news_ids after an item that is not older
\* than the target day: the id is added where the item is appended.
SeenAfter(id, ts) ==
  IF ShouldAppend(id, ts) THEN processed_news_ids \cup {id} ELSE processed_news_ids

\* Mutant: the item older than the target day is left out of the minimum.
EarliestAfter_NotTheOlder(ts) ==
  IF IsOlderThanTarget(ts)
  THEN earliest_valid_ts_in_batch_for_fallback
  ELSE IF earliest_valid_ts_in_batch_for_fallback = None
          \/ ts < Val(earliest_valid_ts_in_batch_for_fallback)
  THEN Some(ts)
  ELSE earliest_valid_ts_in_batch_for_fallback

\* src/U1.py:277-278: the running minimum of the batch.
EarliestAfter(ts) ==
  IF earliest_valid_ts_in_batch_for_fallback = None
     \/ ts < Val(earliest_valid_ts_in_batch_for_fallback)
  THEN Some(ts)
  ELSE earliest_valid_ts_in_batch_for_fallback

\* int(next_api_page_timestamp_str), src/U1.py:311: None stands for ValueError.
IntOfTimestampStr(t) == IF t.kind = "digits" THEN Some(t.val) ELSE None

\* Mutants of the 'before' update: the batch minimum is preferred to the
\* page's 'timestamp'; the 'timestamp' is taken without the test that it is
\* older than the current value.
NextBeforeTimestamp_BatchMinFirst(t, cur) ==
  IF /\ earliest_valid_ts_in_batch_for_fallback # None
     /\ Val(earliest_valid_ts_in_batch_for_fallback) < cur
  THEN Val(earliest_valid_ts_in_batch_for_fallback)
  ELSE IF IntOfTimestampStr(t) # None /\ Val(IntOfTimestampStr(t)) < cur
  THEN Val(IntOfTimestampStr(t))
  ELSE cur

NextBeforeTimestamp_NoProgressTest(t, cur) ==
  IF IntOfTimestampStr(t) = None THEN cur ELSE Val(IntOfTimestampStr(t))

\* src/U1.py:307-329: the 'before' value after a page whose 'timestamp'
\* field is t, when the current value is cur.  The batch minimum is read
\* only to print a warning (src/U1.py:315-317).
NextBeforeTimestamp(t, cur) ==
  IF t.kind = "absent" THEN cur
  ELSE IF IntOfTimestampStr(t) = None THEN cur
  ELSE IF Val(IntOfTimestampStr(t)) < cur THEN Val(IntOfTimestampStr(t))
  ELSE cur

\* Mutants of the count limit: reached only when exceeded; tested in
\* windowed mode too.
CountLimitReached_OnlyWhenExceeded(items) ==
  target_date_str = NoDate /\ Len(items) > news_count_limit
CountLimitReached_AnyMode(items) == Len(items) >= news_count_limit

\* src/U1.py:331: the count limit of unbounded mode.
CountLimitReached(items) == target_date_str = NoDate /\ Len(items) >= news_count_limit

\* Mutant: the final filter leaves out the two ends of the target day.
InFinalRange_Strict(item) ==
  /\ Val(target_day_start_ts) < item.published_timestamp_utc
  /\ item.published_timestamp_utc < Val(target_day_end_ts)

\* src/U1.py:341-347: the final filter.
InFinalRange(item) ==
  /\ Val(target_day_start_ts) <= item.published_timestamp_utc
  /\ item.published_timestamp_utc <= Val(target_day_end_ts)

FinalFilter(items) ==
  IF Truthy(target_day_start_ts) /\ Truthy(target_day_end_ts)
  THEN SelectSeq(items, InFinalRange)
  ELSE items

(***************************************************************************)
(* Actions.                                                                *)
(***************************************************************************)
\* History variables no action but its owner changes.
HistoryUnchanged ==
  UNCHANGED <<requests, delays, prev_timestamp, older_seen_on, expected,
              failed_fetch, last_div, last_ts>>
PageUnchanged ==
  UNCHANGED <<response_json, stories_left, earliest_valid_ts_in_batch_for_fallback>>
\* The arguments, and the count of calls, which only a new call changes.
ArgsUnchanged == UNCHANGED <<target_date_str, calls>>
\* No step of fetch_barchart_news changes the state of the call of
\* parse_date_string_to_timestamp that is modelled on its own.
ParserUnchanged == UNCHANGED <<date_str, parse_result>>

\* fetch_barchart_news and parse_date_string_to_timestamp do not touch the
\* state of the report generator (src/U3.py) or of the briefing script
\* (src/U2.py).
ReportUnchanged ==
  UNCHANGED <<lines_left, current_section, current_category, current_commodity,
              current_list, data, branch, parse_error>>
BriefingUnchanged ==
  UNCHANGED <<DEEPSEEK_API_KEY, api_call, file_system_ok, briefing_pc, briefing_text,
              briefing_filename, files>>

\* src/U1.py:151-155: the target date does not parse; return [].
StartBadDate ==
  /\ pc = "start"
  /\ target_date_str # NoDate
  /\ LET w == date_str_to_timestamps_for_day(target_date_str)
     IN  /\ ~(Truthy(w.start) /\ Truthy(w.end))
         /\ target_day_start_ts' = w.start
         /\ target_day_end_ts' = w.end
  /\ result' = <<>>
  /\ pc' = "aborted"
  /\ UNCHANGED <<current_before_timestamp, stop_fetching, processed_news_ids,
                 api_call_num, all_news_items, handshake_failed>>
  /\ PageUnchanged /\ ArgsUnchanged /\ ParserUnchanged /\ ReportUnchanged /\ BriefingUnchanged /\ HistoryUnchanged

\* Mutant: the first 'before' value is the day's end itself.
InitialBefore_DayEnd(w) ==
  IF target_date_str # NoDate THEN Val(w.end) ELSE ClockNow

\* src/U1.py:148-165: the window and the first 'before' value.
InitialBefore(w) ==
  IF target_date_str # NoDate THEN Val(w.end) + 1 ELSE ClockNow

StartWindowOk(w) ==
  target_date_str # NoDate => (Truthy(w.start) /\ Truthy(w.end))

WindowOf(date) ==
  IF date # NoDate THEN date_str_to_timestamps_for_day(date)
  ELSE [start |-> None, end |-> None]

\* src/U1.py:43-79, 168: get_initial_cookies_and_xsrf is called only when no
\* token is supplied (supplied is the truth value of the argument
\* initial_xsrf_token); it returns a token, or None (no XSRF-TOKEN cookie,
\* or the request fails).
HandshakeOutcomes(supplied) ==
  IF supplied THEN {"not_called"} ELSE {"failed", "token"}

\* Mutant: the token is not tested.
HasToken_NotTested(supplied, h) == TRUE

\* src/U1.py:168-169: xsrf_token is not empty.
HasToken(supplied, h) == supplied \/ h = "token"

\* src/U1.py:167-171: no token supplied and the handshake yields none; return [].
StartNoToken ==
  /\ pc = "start"
  /\ StartWindowOk(WindowOf(target_date_str))
  /\ \E initial_xsrf_token \in BOOLEAN :
       \E h \in HandshakeOutcomes(initial_xsrf_token) :
         /\ ~HasToken(initial_xsrf_token, h)
         /\ handshake_failed' = (h = "failed")
  /\ target_day_start_ts' = WindowOf(target_date_str).start
  /\ target_day_end_ts' = WindowOf(target_date_str).end
  /\ current_before_timestamp' = InitialBefore(WindowOf(target_date_str))
  /\ result' = <<>>
  /\ pc' = "aborted"
  /\ UNCHANGED <<stop_fetching, processed_news_ids, api_call_num, all_news_items>>
  /\ PageUnchanged /\ ArgsUnchanged /\ ParserUnchanged /\ ReportUnchanged /\ BriefingUnchanged /\ HistoryUnchanged

\* Mutant: the ids seen by the last call are still there.
FreshSeenIds_FromLastCall == processed_news_ids

\* src/U1.py:190: processed_news_ids = set().
FreshSeenIds == {}

\* src/U1.py:148-191: the harvest is set up with a token (supplied, or
\* obtained by get_initial_cookies_and_xsrf).
StartOk ==
  /\ pc = "start"
  /\ StartWindowOk(WindowOf(target_date_str))
  /\ \E initial_xsrf_token \in BOOLEAN :
       \E h \in HandshakeOutcomes(initial_xsrf_token) :
         /\ HasToken(initial_xsrf_token, h)
         /\ handshake_failed' = (h = "failed")
  /\ target_day_start_ts' = WindowOf(target_date_str).start
  /\ target_day_end_ts' = WindowOf(target_date_str).end
  /\ current_before_timestamp' = InitialBefore(WindowOf(target_date_str))
  /\ stop_fetching' = FALSE
  /\ processed_news_ids' = FreshSeenIds
  /\ api_call_num' = 0
  /\ all_news_items' = <<>>
  /\ pc' = "loop"
  /\ UNCHANGED result
  /\ PageUnchanged /\ ArgsUnchanged /\ ParserUnchanged /\ ReportUnchanged /\ BriefingUnchanged /\ HistoryUnchanged

\* src/U1.py:193-201: the loop goes round; response_json = None; the request
\* is sent.
SendRequest ==
  /\ pc = "loop"
  /\ LoopCondition
  /\ api_call_num' = api_call_num + 1
  /\ requests' = Append(requests, current_before_timestamp)
  /\ response_json' = NoResponse
  /\ prev_timestamp' = IF requests = <<>> THEN None ELSE Some(response_json.timestamp)
  /\ pc' = "awaiting"
  /\ UNCHANGED <<target_day_start_ts, target_day_end_ts, current_before_timestamp,
                 stop_fetching, processed_news_ids, all_news_items, result,
                 stories_left, earliest_valid_ts_in_batch_for_fallback,
                 delays, older_seen_on, expected, handshake_failed, failed_fetch, last_div,
                 last_ts>>
  /\ ArgsUnchanged /\ ParserUnchanged /\ ReportUnchanged /\ BriefingUnchanged

\* src/U1.py:338-339: after the loop, "Reached MAX_API_CALLS" is printed when
\* the call counter stands at the limit.  The counter is not written after
\* the loop, so the returned state tells whether the line was printed.
ReachedMaxCallsReported == pc = "done" /\ api_call_num >= MAX_API_CALLS

\* src/U1.py:338-351: the end of the function: the final filter and the
\* return.  The locals of the loop go out of scope.
Return ==
  /\ all_news_items' = FinalFilter(all_news_items)
  /\ result' = FinalFilter(all_news_items)
  /\ pc' = "done"
  /\ response_json' = NoResponse
  /\ stories_left' = 0
  /\ earliest_valid_ts_in_batch_for_fallback' = None
  /\ last_div' = None
  /\ last_ts' = None
  /\ UNCHANGED <<target_day_start_ts, target_day_end_ts, current_before_timestamp,
                 stop_fetching, processed_news_ids, api_call_num>>
  /\ UNCHANGED <<requests, delays, prev_timestamp, older_seen_on, expected,
                 handshake_failed, failed_fetch>>
  /\ ArgsUnchanged /\ ParserUnchanged /\ ReportUnchanged /\ BriefingUnchanged

\* src/U1.py:193, 338-351: the loop condition fails; the function returns.
ExitLoop ==
  /\ pc = "loop"
  /\ ~LoopCondition
  /\ Return

\* Mutant: the loop goes on after a failed fetch.
StopAfterFailure_GoesOn == stop_fetching

\* src/U1.py:206, 210, 215: the flag after a failed fetch.
StopAfterFailure == TRUE

\* src/U1.py:199-216: the request fails, the body is not JSON, or the JSON
\* value is empty: stop_fetching = True; continue.
RecvFailure ==
  /\ pc = "awaiting"
  /\ response_json' = NoResponse
  /\ stop_fetching' = StopAfterFailure
  /\ prev_timestamp' = None
  /\ failed_fetch' = Some([call |-> Len(requests), kept |-> all_news_items])
  /\ pc' = "loop"
  /\ UNCHANGED <<target_day_start_ts, target_day_end_ts, current_before_timestamp,
                 processed_news_ids, api_call_num, all_news_items, result,
                 stories_left, earliest_valid_ts_in_batch_for_fallback,
                 requests, delays, older_seen_on, expected, handshake_failed, last_div,
                 last_ts>>
  /\ ArgsUnchanged /\ ParserUnchanged /\ ReportUnchanged /\ BriefingUnchanged

\* src/U1.py:218-233: a page arrives.  content is "none" (absent or empty),
\* or "html" with n story divs.
RecvPage ==
  /\ pc = "awaiting"
  /\ \E content \in {"none", "html"}, t \in TimestampStrs(target_date_str), n \in 0..MaxStories :
       /\ content = "none" => n = 0
       /\ response_json' = [content |-> content, timestamp |-> t]
       /\ stop_fetching' = IF content = "none" /\ t.kind = "absent" THEN TRUE ELSE stop_fetching
       /\ stories_left' = n
       /\ pc' = IF n > 0 THEN "stories" ELSE "after_batch"
  /\ earliest_valid_ts_in_batch_for_fallback' = None
  /\ prev_timestamp' = None
  /\ last_div' = None
  /\ last_ts' = None
  /\ UNCHANGED <<target_day_start_ts, target_day_end_ts, current_before_timestamp,
                 processed_news_ids, api_call_num, all_news_items, result,
                 requests, delays, older_seen_on, expected, handshake_failed, failed_fetch>>
  /\ ArgsUnchanged /\ ParserUnchanged /\ ReportUnchanged /\ BriefingUnchanged

\* Mutant: the feed name is not tested.
Skipped_AnyFeed(story) ==
  \/ ~story.has_link_and_meta
  \/ story.news_id = None
  \/ story.item_ts = None

\* src/U1.py:240-275: the story div is skipped before its time is used.
Skipped(story) ==
  \/ ~story.has_link_and_meta
  \/ story.news_id = None
  \/ Lower(story.feed_name) # "barchart"
  \/ story.item_ts = None

\* Mutant: the for loop goes on after the item older than the target day.
AfterStory_NoBreak(broke) ==
  /\ stories_left' = stories_left - 1
  /\ pc' = IF stories_left = 1 THEN "after_batch" ELSE "stories"

\* src/U1.py:235, 284: the position after one story div: the for loop ends
\* after the last div, or at the break.
AfterStory(broke) ==
  /\ stories_left' = stories_left - 1
  /\ pc' = IF broke \/ stories_left = 1 THEN "after_batch" ELSE "stories"

\* What a story div is to the loop, by the first test that tells
\* (src/U1.py:240, 253, 266, 273), and for a div that passes them all, where
\* its time lies with respect to the target day.
DivKind(story) ==
  IF ~story.has_link_and_meta THEN "no_link_or_meta"
  ELSE IF story.news_id = None THEN "no_id"
  ELSE IF Lower(story.feed_name) # "barchart" THEN "other_feed"
  ELSE IF story.item_ts = None THEN "no_time"
  ELSE IF target_date_str = NoDate THEN "timed"
  ELSE IF Val(story.item_ts) < Val(TargetDayWindows[target_date_str].start) THEN "older"
  ELSE IF Val(story.item_ts) > Val(TargetDayWindows[target_date_str].end) THEN "newer"
  ELSE "in_day"

\* Mutant: a div whose time does not parse ends the for loop.
SkipBreaks_OnNoTime(story) == story.item_ts = None

\* src/U1.py:242, 255, 269, 275: a skipped div is left with continue, never
\* with break.
SkipBreaks(story) == FALSE

\* src/U1.py:235-275: one story div, skipped.
SkipStory ==
  /\ pc = "stories"
  /\ stories_left > 0
  /\ \E story \in StoryDivs(target_date_str) :
       /\ Skipped(story)
       /\ last_div' = Some(DivKind(story))
       /\ last_ts' = None
       /\ AfterStory(SkipBreaks(story))
  /\ UNCHANGED <<target_day_start_ts, target_day_end_ts, current_before_timestamp,
                 stop_fetching, processed_news_ids, api_call_num, all_news_items,
                 result, response_json, earliest_valid_ts_in_batch_for_fallback>>
  /\ UNCHANGED <<requests, delays, prev_timestamp, older_seen_on, expected,
                 handshake_failed, failed_fetch>>
  /\ ArgsUnchanged /\ ParserUnchanged /\ ReportUnchanged /\ BriefingUnchanged

\* The history of what a harvest is to keep: an item of the accepted feed
\* with an id and a time, not older than the window, inside the window when
\* there is one, whose id no kept item has.
ExpectedAfter(id, ts) ==
  IF /\ \A k \in 1..Len(expected) : expected[k].id # id
     /\ \/ target_date_str = NoDate
        \/ (Val(target_day_start_ts) <= ts /\ ts <= Val(target_day_end_ts))
  THEN Append(expected, NewsItem(id, ts))
  ELSE expected

\* src/U1.py:235-299: one story div with a link, an id, the accepted feed
\* name and a time.
ProcessStory ==
  /\ pc = "stories"
  /\ stories_left > 0
  /\ \E story \in StoryDivs(target_date_str) :
       /\ ~Skipped(story)
       /\ last_div' = Some(DivKind(story))
       /\ last_ts' = story.item_ts
       /\ LET id == Val(story.news_id)
              ts == Val(story.item_ts)
          IN  /\ earliest_valid_ts_in_batch_for_fallback' = EarliestAfter(ts)
              /\ stop_fetching' = StopAfterItem(ts)
              /\ expected' = ExpectedAfter(id, ts)
              /\ IF IsOlderThanTarget(ts)
                 THEN /\ AfterStory(TRUE)
                      /\ older_seen_on' =
                           IF older_seen_on = None THEN Some(Len(requests)) ELSE older_seen_on
                      /\ UNCHANGED <<all_news_items, processed_news_ids>>
                 ELSE /\ AfterStory(FALSE)
                      /\ UNCHANGED older_seen_on
                      /\ all_news_items' =
                           IF ShouldAppend(id, ts)
                           THEN AppendItem(id, ts)
                           ELSE all_news_items
                      /\ processed_news_ids' = SeenAfter(id, ts)
  /\ UNCHANGED <<target_day_start_ts, target_day_end_ts, current_before_timestamp,
                 api_call_num, result, response_json, requests, delays, prev_timestamp,
                 handshake_failed, failed_fetch>>
  /\ ArgsUnchanged /\ ParserUnchanged /\ ReportUnchanged /\ BriefingUnchanged

\* src/U1.py:301-304, 338-351: the batch ends with stop_fetching set;
\* break, and the function returns.
BreakLoop ==
  /\ pc = "after_batch"
  /\ stop_fetching
  /\ Return

\* src/U1.py:306-336: the next 'before' value, the count limit, the delay.
NextPage ==
  /\ pc = "after_batch"
  /\ ~stop_fetching
  /\ current_before_timestamp' =
       NextBeforeTimestamp(response_json.timestamp, current_before_timestamp)
  /\ stop_fetching' = CountLimitReached(all_news_items)
  /\ delays' = IF CountLimitReached(all_news_items) THEN delays ELSE delays + 1
  /\ last_div' = None
  /\ last_ts' = None
  /\ pc' = "loop"
  /\ UNCHANGED <<target_day_start_ts, target_day_end_ts, processed_news_ids,
                 api_call_num, all_news_items, result, requests, prev_timestamp,
                 older_seen_on, expected, handshake_failed, failed_fetch>>
  /\ PageUnchanged /\ ArgsUnchanged /\ ParserUnchanged /\ ReportUnchanged /\ BriefingUnchanged

Next ==
  \/ StartBadDate
  \/ StartNoToken
  \/ StartOk
  \/ SendRequest
  \/ ExitLoop
  \/ RecvFailure
  \/ RecvPage
  \/ SkipStory
  \/ ProcessStory
  \/ BreakLoop
  \/ NextPage

Spec == Init /\ [][Next]_vars

\* The loop and the function run to their end: the process is not suspended
\* for ever, and every request returns or fails.
LiveSpec == Init /\ [][Next]_vars /\ WF_vars(Next)

(***************************************************************************)
(* The start of a harvest, up to its first request, over many target       *)
(* dates: days around the epoch and in leap and common years, strings of   *)
(* eight digits that name no day, and strings of six, seven and nine       *)
(* digits.                                                                 *)
(***************************************************************************)
Digits2(n) == <<n \div 10, n % 10>>
Digits4(n) == Digits2(n \div 100) \o Digits2(n % 100)

WindowYears == {1969, 1970, 2024, 2025}
EightDigitDates ==
  {Digits4(y) \o Digits2(m) \o Digits2(d) : y \in WindowYears, m \in 0..13, d \in 0..32}
OtherLengthDates ==
  {<<2, 0, 2, 5, 1, 1>>, <<2, 0, 2, 5, 6, 1, 1>>, <<2, 0, 2, 5, 0, 6, 1>>,
   <<2, 0, 2, 5, 0, 6, 0>>, <<2, 0, 2, 5, 0, 6, 1, 1, 0>>}
WindowDates == EightDigitDates \cup OtherLengthDates

WindowInit == InitWith(WindowDates)

WindowNext ==
  \/ StartBadDate
  \/ StartNoToken
  \/ StartOk
  \/ SendRequest

WindowSpec == WindowInit /\ [][WindowNext]_vars

(***************************************************************************)
(* Two calls of fetch_barchart_news in one process, with the same          *)
(* arguments and the same clock.  The second call finds the variables as   *)
(* the first one left them; the histories start again with it.             *)
(***************************************************************************)
CallAgain ==
  /\ pc \in {"done", "aborted"}
  /\ calls = 1
  /\ calls' = 2
  /\ pc' = "start"
  /\ result' = <<>>
  /\ requests' = <<>>
  /\ delays' = 0
  /\ prev_timestamp' = None
  /\ older_seen_on' = None
  /\ expected' = <<>>
  /\ handshake_failed' = FALSE
  /\ failed_fetch' = None
  /\ UNCHANGED <<target_date_str, target_day_start_ts, target_day_end_ts,
                 current_before_timestamp, stop_fetching, processed_news_ids,
                 api_call_num, all_news_items, last_div, last_ts>>
  /\ PageUnchanged /\ ParserUnchanged /\ ReportUnchanged /\ BriefingUnchanged

TwiceNext ==
  \/ Next
  \/ CallAgain

TwiceSpec == Init /\ [][TwiceNext]_vars

(***************************************************************************)
(* One call of parse_date_string_to_timestamp, over the date texts.        *)
(***************************************************************************)
HarvestUnchanged ==
  UNCHANGED <<pc, target_date_str, target_day_start_ts,
              target_day_end_ts, current_before_timestamp, stop_fetching,
              processed_news_ids, api_call_num, all_news_items, response_json,
              stories_left, earliest_valid_ts_in_batch_for_fallback, result,
              requests, delays, prev_timestamp, older_seen_on, expected,
              handshake_failed, failed_fetch, last_div, last_ts, calls>>

ParseInit ==
  /\ HarvestInitWith({NoDate})
  /\ date_str \in DateTexts \cup {NoText}
  /\ parse_result = NotReturned
  /\ ReportIdle
  /\ BriefingIdle

\* src/U1.py:110-111, 141-143: the text is empty or an exception is caught.
ParseReturnsNone ==
  /\ ~parse_result.returned
  /\ parse_date_string_to_timestamp(date_str) = None
  /\ parse_result' = [returned |-> TRUE, value |-> None]
  /\ UNCHANGED date_str
  /\ HarvestUnchanged /\ ReportUnchanged /\ BriefingUnchanged

\* src/U1.py:113-139: the timestamp is returned.
ParseReturnsTimestamp ==
  /\ ~parse_result.returned
  /\ parse_date_string_to_timestamp(date_str) # None
  /\ parse_result' = [returned |-> TRUE, value |-> parse_date_string_to_timestamp(date_str)]
  /\ UNCHANGED date_str
  /\ HarvestUnchanged /\ ReportUnchanged /\ BriefingUnchanged

ParseNext ==
  \/ ParseReturnsNone
  \/ ParseReturnsTimestamp

ParseSpec == ParseInit /\ [][ParseNext]_vars

(***************************************************************************)
(* BriefingReportGenerator.parse_file (src/U3.py:39-130), one line at a    *)
(* step.                                                                   *)
(***************************************************************************)
\* The longest file read.
MaxLines == 6

\* The names the '####' headers carry; "" is the header without a name.
CategoryNames == {"Energy", "Metals", ""}

\* The lines of a file, by what the tests of the loop tell apart.  Each
\* kind stands for a text of that shape:
\*   "date"            News Briefing for: 2025-06-11
\*   "h_briefing"      ### Daily Financial Briefing
\*   "h_key_themes"    ### **Summary & Key Themes**
\*   "h_risks"         ### **Risks Highlighted**
\*   "h_watch"         ### **Watch Next**
\*   "h_table"         ### **Price Movement Classification Table**
\*   "category"        #### **Energy**
\*   "table_row"       | Gold | Up | reason |
\*   "commodity"       1.  **Crude Oil**
\*   "price"           - **Price Movement:** text
\*   "drivers"         - **Key Drivers:** text
\*   "reverse"         - **Reverse Factors:** text
\*   "classification"  - **Classification:** text
\*   "dash"            - text
\*   "star"            * text
\*   "numbered"        1. text
\*   "text"            any other line that is not blank
LineKinds ==
  {"date", "h_briefing", "h_key_themes", "h_risks", "h_watch", "h_table",
   "table_row", "commodity", "price", "drivers", "reverse", "classification",
   "dash", "star", "numbered", "text"}

Lines ==
  [kind : LineKinds, name : {""}] \cup [kind : {"category"}, name : CategoryNames]

\* The text a line carries: the lines are told apart by their place in the
\* file, counted from its end.
TextOf(line) == lines_left

\* src/U3.py:82: "|" in line.
HasBar(line) == line.kind = "table_row"

\* src/U3.py:94: re.match(r'^\d+\.\s+\*\*', line).
IsCommodityLine(line) == line.kind = "commodity"

\* src/U3.py:122: line.startswith("-") or line.startswith("*").
StartsWithDashOrStar(line) ==
  line.kind \in {"price", "drivers", "reverse", "classification", "dash", "star"}

\* src/U3.py:128: re.match(r'^(?:\d+\.|\-)\s+', line).
IsSummaryItem(line) ==
  line.kind \in {"commodity", "numbered", "price", "drivers", "reverse",
                 "classification", "dash"}

\* The keys of a commodity dict that hold lists (src/U3.py:99-100).
CommodityListKeys == {"key_drivers", "reverse_factors"}

\* src/U3.py:58-71: current_list after a '###' header.
ListAfterHeader(line) ==
  CASE line.kind = "h_key_themes" -> Some("key_themes")
    [] line.kind = "h_risks" -> Some("risks_highlighted")
    [] line.kind = "h_watch" -> Some("watch_next")
    [] OTHER -> current_list

\* src/U3.py:58-71: current_section after a '###' header.
SectionAfterHeader(line) ==
  CASE line.kind = "h_briefing" -> Some("commodities")
    [] line.kind \in {"h_key_themes", "h_risks", "h_watch"} -> Some("summary")
    [] line.kind = "h_table" -> Some("table")

\* src/U3.py:55-123: the branch of the if/elif chain a line takes.
Branch(line) ==
  IF line.kind = "date" THEN "date"
  ELSE IF line.kind \in {"h_briefing", "h_key_themes", "h_risks", "h_watch", "h_table"}
  THEN "header"
  ELSE IF line.kind = "category" THEN "category"
  ELSE IF current_section = Some("table") /\ HasBar(line) THEN "table"
  ELSE IF current_section = Some("commodities") /\ current_category # None
          /\ Val(current_category) # ""
  THEN IF IsCommodityLine(line) THEN "new_commodity"
       ELSE IF current_commodity = None THEN "none"
       ELSE IF line.kind \in {"price", "drivers", "reverse", "classification"} THEN line.kind
       ELSE IF current_list # None /\ StartsWithDashOrStar(line) THEN "continuation"
       ELSE "none"
  ELSE IF current_section = Some("summary") /\ current_list # None
  THEN IF IsSummaryItem(line) THEN "summary_item" ELSE "none"
  ELSE "none"

\* src/U3.py:77-78: the dict of the categories has the key.
HasCategory(name) ==
  \E k \in 1..Len(data.commodities) : data.commodities[k].category = name

\* The place of the key in the dict.
CategoryIndex(name) ==
  CHOOSE k \in 1..Len(data.commodities) : data.commodities[k].category = name

\* src/U3.py:77-78: the key is added with an empty list when it is new.
DataWithCategory(name) ==
  IF HasCategory(name)
  THEN data
  ELSE [data EXCEPT !.commodities = Append(@, [category |-> name, items |-> <<>>])]

\* Mutant: the current commodity outlives the category header.
CommodityAfterCategory_Kept == current_commodity

\* src/U3.py:80: current_commodity after a '####' header.
CommodityAfterCategory == None

\* src/U3.py:96-102: the dict of a new commodity.
NewCommodity(text) ==
  [name |-> text, price_movement |-> 0, key_drivers |-> <<>>,
   reverse_factors |-> <<>>, classification |-> 0]

\* The dict current_commodity refers to.
CommodityAt(d, ref) == d.commodities[CategoryIndex(ref.category)].items[ref.index]

\* self.data after the dict current_commodity refers to has become c: the
\* dict is the one in the list, not a copy (src/U3.py:103).
DataWithCommodity(c) ==
  [data EXCEPT
     !.commodities[CategoryIndex(Val(current_commodity).category)]
        .items[Val(current_commodity).index] = c]

\* src/U3.py:106-117: the current commodity after one of the four detail
\* lines, and current_list after it.
CommodityAfterDetail(c, line) ==
  CASE line.kind = "price" -> [c EXCEPT !.price_movement = TextOf(line)]
    [] line.kind = "drivers" -> [c EXCEPT !.key_drivers = Append(@, TextOf(line))]
    [] line.kind = "reverse" -> [c EXCEPT !.reverse_factors = Append(@, TextOf(line))]
    [] line.kind = "classification" -> [c EXCEPT !.classification = TextOf(line)]

ListAfterDetail(line) ==
  CASE line.kind = "drivers" -> Some("key_drivers")
    [] line.kind = "reverse" -> Some("reverse_factors")
    [] OTHER -> None

\* One line is read: the count, and the branch it took.
LineRead(line) ==
  /\ lines_left' = lines_left - 1
  /\ branch' = Some(Branch(line))

CanRead == lines_left > 0 /\ parse_error = None

\* src/U3.py:55-56: the date line.
ReadDate ==
  /\ CanRead
  /\ \E line \in Lines :
       /\ Branch(line) = "date"
       /\ data' = [data EXCEPT !.date = TextOf(line)]
       /\ LineRead(line)
  /\ UNCHANGED <<current_section, current_category, current_commodity, current_list,
                 parse_error>>
  /\ HarvestUnchanged /\ ParserUnchanged /\ BriefingUnchanged

\* src/U3.py:57-71: a '###' header.
ReadHeader ==
  /\ CanRead
  /\ \E line \in Lines :
       /\ Branch(line) = "header"
       /\ current_section' = SectionAfterHeader(line)
       /\ current_list' = ListAfterHeader(line)
       /\ LineRead(line)
  /\ UNCHANGED <<current_category, current_commodity, data, parse_error>>
  /\ HarvestUnchanged /\ ParserUnchanged /\ BriefingUnchanged

\* src/U3.py:74-80: a '####' header.
ReadCategory ==
  /\ CanRead
  /\ \E line \in Lines :
       /\ Branch(line) = "category"
       /\ data' = DataWithCategory(line.name)
       /\ current_category' = Some(line.name)
       /\ current_commodity' = CommodityAfterCategory
       /\ LineRead(line)
  /\ UNCHANGED <<current_section, current_list, parse_error>>
  /\ HarvestUnchanged /\ ParserUnchanged /\ BriefingUnchanged

\* src/U3.py:82-90: a row of the table, of three parts.
ReadTableRow ==
  /\ CanRead
  /\ \E line \in Lines :
       /\ Branch(line) = "table"
       /\ data' = [data EXCEPT !.classification_table = Append(@, TextOf(line))]
       /\ LineRead(line)
  /\ UNCHANGED <<current_section, current_category, current_commodity, current_list,
                 parse_error>>
  /\ HarvestUnchanged /\ ParserUnchanged /\ BriefingUnchanged

\* src/U3.py:94-104: a numbered line starts a commodity in the current
\* category.
ReadNewCommodity ==
  /\ CanRead
  /\ \E line \in Lines :
       /\ Branch(line) = "new_commodity"
       /\ LET k == CategoryIndex(Val(current_category))
          IN  /\ data' = [data EXCEPT !.commodities[k].items =
                                        Append(@, NewCommodity(TextOf(line)))]
              /\ current_commodity' =
                   Some([category |-> Val(current_category),
                         index |-> Len(data.commodities[k].items) + 1])
       /\ current_list' = None
       /\ LineRead(line)
  /\ UNCHANGED <<current_section, current_category, parse_error>>
  /\ HarvestUnchanged /\ ParserUnchanged /\ BriefingUnchanged

\* src/U3.py:106-118: a detail line of the current commodity.
ReadDetail ==
  /\ CanRead
  /\ \E line \in Lines :
       /\ Branch(line) \in {"price", "drivers", "reverse", "classification"}
       /\ data' = DataWithCommodity(
                    CommodityAfterDetail(CommodityAt(data, Val(current_commodity)), line))
       /\ current_list' = ListAfterDetail(line)
       /\ LineRead(line)
  /\ UNCHANGED <<current_section, current_category, current_commodity, parse_error>>
  /\ HarvestUnchanged /\ ParserUnchanged /\ BriefingUnchanged

\* src/U3.py:120-123: a bullet that continues the list named by
\* current_list.  current_commodity[current_list] raises KeyError when the
\* commodity dict has no such key; parse_file does not catch it.
ReadContinuation ==
  /\ CanRead
  /\ \E line \in Lines :
       /\ Branch(line) = "continuation"
       /\ LineRead(line)
       /\ IF Val(current_list) \in CommodityListKeys
          THEN LET c == CommodityAt(data, Val(current_commodity))
               IN  /\ data' = DataWithCommodity(
                                IF Val(current_list) = "key_drivers"
                                THEN [c EXCEPT !.key_drivers = Append(@, TextOf(line))]
                                ELSE [c EXCEPT !.reverse_factors = Append(@, TextOf(line))])
                   /\ UNCHANGED parse_error
          ELSE /\ parse_error' = Some("KeyError")
               /\ UNCHANGED data
  /\ UNCHANGED <<current_section, current_category, current_commodity, current_list>>
  /\ HarvestUnchanged /\ ParserUnchanged /\ BriefingUnchanged

\* src/U3.py:127-130: an item of the current summary list.
ReadSummaryItem ==
  /\ CanRead
  /\ \E line \in Lines :
       /\ Branch(line) = "summary_item"
       /\ data' = [data EXCEPT !.summary[Val(current_list)] = Append(@, TextOf(line))]
       /\ LineRead(line)
  /\ UNCHANGED <<current_section, current_category, current_commodity, current_list,
                 parse_error>>
  /\ HarvestUnchanged /\ ParserUnchanged /\ BriefingUnchanged

\* A line that no branch uses.
ReadOther ==
  /\ CanRead
  /\ \E line \in Lines :
       /\ Branch(line) = "none"
       /\ LineRead(line)
  /\ UNCHANGED <<current_section, current_category, current_commodity, current_list,
                 data, parse_error>>
  /\ HarvestUnchanged /\ ParserUnchanged /\ BriefingUnchanged

ReportInit ==
  /\ HarvestInitWith({NoDate})
  /\ date_str = NoText
  /\ parse_result = NotReturned
  /\ ReportInitWith({MaxLines})
  /\ BriefingIdle

ReportNext ==
  \/ ReadDate
  \/ ReadHeader
  \/ ReadCategory
  \/ ReadTableRow
  \/ ReadNewCommodity
  \/ ReadDetail
  \/ ReadContinuation
  \/ ReadSummaryItem
  \/ ReadOther

ReportSpec == ReportInit /\ [][ReportNext]_vars

(***************************************************************************)
(* The briefing script (src/U2.py): get_briefing_from_deepseek and the end *)
(* of main, from the call of the API to the file written.                  *)
(***************************************************************************)
\* The longest text the API call gives: a response, or the message of the
\* exception it raises.
MaxWords == 2

\* The words of those texts.  A text is a sequence of words; the test
\* '"Error:" in briefing_text' of src/U2.py:306 finds the word "Error:".
Words == {"Error:", "Error", "code:", "Connection", "briefing"}

Texts == UNION {[1..n -> Words] : n \in 0..MaxWords}

\* src/U2.py:199: the text returned when the key is not configured.
NotConfiguredText == <<"Error:", "DeepSeek", "API", "Key", "not", "configured.">>

\* src/U2.py:225: the text returned when the call raises e: the message of
\* e after a fixed beginning.
ErrorMessage(e) ==
  <<"An", "error", "occurred", "while", "communicating", "with", "DeepSeek", "API:">> \o e

\* src/U2.py:306: "Error:" in briefing_text or "Poe API Error:" in
\* briefing_text; the second text contains the first.
HasErrorMarker(text) == \E k \in 1..Len(text) : text[k] = "Error:"

\* src/U2.py:304-309: the two file names, after the date.
ErrorFileName == "_daily_briefing_error.txt"
NormalFileName == "_daily_briefing.txt"

BriefingFileName(text) == IF HasErrorMarker(text) THEN ErrorFileName ELSE NormalFileName

HarvestAndReportUnchanged == HarvestUnchanged /\ ParserUnchanged /\ ReportUnchanged

BriefingInputsUnchanged == UNCHANGED <<DEEPSEEK_API_KEY, api_call, file_system_ok>>

\* src/U2.py:197-199: the key is not configured.
CallNotConfigured ==
  /\ briefing_pc = "calling"
  /\ ~DEEPSEEK_API_KEY
  /\ briefing_text' = NotConfiguredText
  /\ briefing_pc' = "naming"
  /\ UNCHANGED <<briefing_filename, files>>
  /\ BriefingInputsUnchanged /\ HarvestAndReportUnchanged

\* src/U2.py:208-222: the API answers.
CallReturns ==
  /\ briefing_pc = "calling"
  /\ DEEPSEEK_API_KEY
  /\ ~api_call.raises
  /\ briefing_text' = api_call.text
  /\ briefing_pc' = "naming"
  /\ UNCHANGED <<briefing_filename, files>>
  /\ BriefingInputsUnchanged /\ HarvestAndReportUnchanged

\* src/U2.py:223-227: the call raises; the exception is caught and its
\* message returned as the briefing text.
CallRaises ==
  /\ briefing_pc = "calling"
  /\ DEEPSEEK_API_KEY
  /\ api_call.raises
  /\ briefing_text' = ErrorMessage(api_call.text)
  /\ briefing_pc' = "naming"
  /\ UNCHANGED <<briefing_filename, files>>
  /\ BriefingInputsUnchanged /\ HarvestAndReportUnchanged

\* src/U2.py:304-312: the file name is chosen from the text.
NameFile ==
  /\ briefing_pc = "naming"
  /\ briefing_filename' = Some(BriefingFileName(briefing_text))
  /\ briefing_pc' = "writing"
  /\ UNCHANGED <<briefing_text, files>>
  /\ BriefingInputsUnchanged /\ HarvestAndReportUnchanged

\* src/U2.py:314-325: the file is written.
WriteFile ==
  /\ briefing_pc = "writing"
  /\ file_system_ok
  /\ files' = Append(files, [name |-> Val(briefing_filename), text |-> briefing_text])
  /\ briefing_pc' = "end"
  /\ UNCHANGED <<briefing_text, briefing_filename>>
  /\ BriefingInputsUnchanged /\ HarvestAndReportUnchanged

\* src/U2.py:326-327: the file cannot be written; the exception is caught.
WriteFails ==
  /\ briefing_pc = "writing"
  /\ ~file_system_ok
  /\ briefing_pc' = "end"
  /\ UNCHANGED <<briefing_text, briefing_filename, files>>
  /\ BriefingInputsUnchanged /\ HarvestAndReportUnchanged

BriefingInit ==
  /\ HarvestInitWith({NoDate})
  /\ date_str = NoText
  /\ parse_result = NotReturned
  /\ ReportIdle
  /\ DEEPSEEK_API_KEY \in BOOLEAN
  /\ api_call \in [raises : BOOLEAN, text : Texts]
  /\ file_system_ok \in BOOLEAN
  /\ briefing_pc = "calling"
  /\ briefing_text = <<>>
  /\ briefing_filename = None
  /\ files = <<>>

BriefingNext ==
  \/ CallNotConfigured
  \/ CallReturns
  \/ CallRaises
  \/ NameFile
  \/ WriteFile
  \/ WriteFails

BriefingSpec == BriefingInit /\ [][BriefingNext]_vars

TypeOK ==
  /\ pc \in {"start", "aborted", "loop", "awaiting", "stories", "after_batch", "done"}
  /\ stories_left \in 0..MaxStories
  /\ api_call_num \in 0..MAX_API_CALLS

(***************************************************************************)
(* Properties.                                                             *)
(***************************************************************************)
Windowed == target_date_str # NoDate

\* A request is in flight that follows a processed page.
FollowUpRequest == pc = "awaiting" /\ Len(requests) >= 2
PrevBefore == requests[Len(requests) - 1]
ThisBefore == requests[Len(requests)]
\* The previous page's 'timestamp' is a number older than that page's 'before'.
PrevHintUsable ==
  /\ Val(prev_timestamp).kind = "digits"
  /\ Val(prev_timestamp).val < PrevBefore
PrevBatchMin == earliest_valid_ts_in_batch_for_fallback

\* C1: of every two consecutive page requests of a harvest, the second one's
\* 'before' value is strictly less than the first one's (a page after which
\* neither the 'timestamp' nor the batch minimum is older ends the harvest).
C1_StrictCursorProgress ==
  \A k \in 1..(Len(requests) - 1) : requests[k + 1] < requests[k]

\* C2: in a windowed harvest every item of all_news_items, after every step,
\* and every item of the returned list lies in the target day, both ends
\* included.
C2_WindowContainment ==
  Windowed =>
    /\ \A k \in 1..Len(all_news_items) :
         /\ Val(target_day_start_ts) <= all_news_items[k].published_timestamp_utc
         /\ all_news_items[k].published_timestamp_utc <= Val(target_day_end_ts)
    /\ \A k \in 1..Len(result) :
         /\ Val(target_day_start_ts) <= result[k].published_timestamp_utc
         /\ result[k].published_timestamp_utc <= Val(target_day_end_ts)

\* C2 witness: items are kept, and the page just read carried an item newer
\* than the target day (the batch minimum is past the day's end), which was
\* not kept.
C2_Witness ==
  /\ Windowed
  /\ pc = "after_batch"
  /\ earliest_valid_ts_in_batch_for_fallback = Some(Val(target_day_end_ts) + 1)
  /\ Len(all_news_items) = 2
  /\ {all_news_items[1].published_timestamp_utc, all_news_items[2].published_timestamp_utc}
       = {Val(target_day_start_ts), Val(target_day_end_ts)}

\* C3: no two items of all_news_items have the same id, whatever the pages
\* repeat.
C3_NoDuplicateIds ==
  \A i, j \in 1..Len(all_news_items) :
    i # j => all_news_items[i].id # all_news_items[j].id

\* C3 witness: a page repeated an id.  The batch minimum is the start of the
\* target day, so an item with that time was read on this page; it lies in
\* the window and no kept item has that time, so its id had been kept before.
C3_Witness ==
  /\ Windowed
  /\ pc = "after_batch"
  /\ earliest_valid_ts_in_batch_for_fallback = target_day_start_ts
  /\ Len(all_news_items) >= 1
  /\ \A k \in 1..Len(all_news_items) :
       all_news_items[k].published_timestamp_utc # Val(target_day_start_ts)

\* C4: once an item older than the target day's start has been met, the for
\* loop is left and never entered again, no request follows,
\* all_news_items never changes (the divs after that item are not read),
\* and the harvest returns.
C4_EarlyStop ==
  /\ [](older_seen_on # None => (pc \in {"after_batch", "done"} /\ stop_fetching))
  /\ [][older_seen_on # None => all_news_items' = all_news_items]_vars
  /\ (older_seen_on # None) ~> (pc = "done")

\* C4 witness: the older item was met with story divs still unread after it.
C4_Witness ==
  /\ older_seen_on # None
  /\ pc = "after_batch"
  /\ stories_left > 0
  /\ Len(all_news_items) >= 1

\* C5: when the first item older than the target day's start is met on the
\* k-th page, the harvest sends k requests in all.
C5_NoFetchAfterOlder ==
  older_seen_on # None => Len(requests) = Val(older_seen_on)

\* C5 witness: the harvest has returned after meeting the older item on its
\* second page, with the safety limit not yet reached.
C5_Witness ==
  /\ pc = "done"
  /\ older_seen_on = Some(2)
  /\ api_call_num < MAX_API_CALLS

\* C6: the harvest never sends more than MAX_API_CALLS requests, and it
\* comes to its end whatever the feed answers.
C6_TerminationAndBound ==
  /\ [](Len(requests) <= MAX_API_CALLS)
  /\ <>(pc \in {"done", "aborted"})

\* C6 witness: a feed that never let the 'before' value move and never
\* stopped the harvest: every request carried the same value.
C6_Witness ==
  /\ pc = "done"
  /\ ~stop_fetching
  /\ Len(requests) = MAX_API_CALLS
  /\ requests[1] = requests[MAX_API_CALLS]

\* C7: a harvest whose loop ended with stop_fetching never set has sent
\* exactly MAX_API_CALLS requests, and returns every item it was to keep,
\* those of the last page included.
C7_SafetyLimit ==
  (pc = "done" /\ ~stop_fetching) =>
    /\ Len(requests) = MAX_API_CALLS
    /\ api_call_num = MAX_API_CALLS
    /\ result = expected

\* C7 witness: such a harvest, returning an item.
C7_Witness ==
  /\ pc = "done"
  /\ ~stop_fetching
  /\ Len(requests) = MAX_API_CALLS
  /\ Len(result) >= 1

\* C8: when the previous page's 'timestamp' is absent, not a number or not
\* older than that page's 'before', and the page's batch minimum is older
\* than it, the next request carries the batch minimum.
C8_CursorFallback ==
  (/\ FollowUpRequest
   /\ ~PrevHintUsable
   /\ PrevBatchMin # None
   /\ Val(PrevBatchMin) < PrevBefore)
    => ThisBefore = Val(PrevBatchMin)

\* C9: when the previous page's 'timestamp' is a number older than that
\* page's 'before', the next request carries exactly that number, whatever
\* the batch minimum.
C9_HintTakesPrecedence ==
  (FollowUpRequest /\ PrevHintUsable) => ThisBefore = Val(prev_timestamp).val

\* C9 witness: the 'timestamp' was usable and the batch minimum was older
\* still.
C9_Witness ==
  /\ FollowUpRequest
  /\ PrevHintUsable
  /\ PrevBatchMin # None
  /\ Val(PrevBatchMin) < Val(prev_timestamp).val

\* C10: the 'before' values of successive requests never increase.
C10_CursorNeverForward ==
  \A k \in 1..(Len(requests) - 1) : requests[k + 1] <= requests[k]

\* C10 witness: a request follows a page whose 'timestamp' was a number
\* newer than the page's 'before'.
C10_Witness ==
  /\ FollowUpRequest
  /\ Val(prev_timestamp).kind = "digits"
  /\ Val(prev_timestamp).val > PrevBefore

\* C11: when the fetch of page k fails (the request, the decoding, or an
\* empty payload), request k is the last request of the harvest, nothing is
\* kept after it, and the harvest returns exactly the items kept from pages
\* 1..k-1, which are the items it was to keep from them.
C11_FailureKeepsPartial ==
  failed_fetch # None =>
    /\ pc \in {"loop", "done"}
    /\ Len(requests) = Val(failed_fetch).call
    /\ all_news_items = Val(failed_fetch).kept
    /\ Val(failed_fetch).kept = expected
    /\ (pc = "done" => result = Val(failed_fetch).kept)

\* C11 witness: the second fetch failed and the harvest has returned the
\* item kept from the first page.
C11_Witness ==
  /\ pc = "done"
  /\ failed_fetch # None
  /\ Val(failed_fetch).call = 2
  /\ Len(result) >= 1

\* The page in hand had no story div: the for loop read none.
PageWithoutStories == pc = "after_batch" /\ last_div = None

\* C12: a page that yields no story div and carries no 'timestamp' sets
\* stop_fetching, whether its content is empty or not, so that the harvest
\* ends without another request.
C12_ExhaustedFeed ==
  (PageWithoutStories /\ response_json.timestamp.kind = "absent") => stop_fetching

\* C13: in unbounded mode the harvest never returns more than
\* news_count_limit items.
C13_CountLimitIsHardBound ==
  (~Windowed /\ pc = "done") => Len(result) <= news_count_limit

\* C14: in unbounded mode, once a page has been processed and the items kept
\* are at least news_count_limit, stop_fetching is set at the while test and
\* no request follows; in windowed mode the flag is never set at the while
\* test but by a failed fetch, however many items are kept.
C14_LimitReachedStop ==
  /\ (~Windowed /\ pc = "loop" /\ api_call_num >= 1
        /\ Len(all_news_items) >= news_count_limit) => stop_fetching
  /\ (~Windowed /\ FollowUpRequest) => Len(all_news_items) < news_count_limit
  /\ (Windowed /\ pc = "loop" /\ failed_fetch = None) => ~stop_fetching

\* C14 witness: an unbounded harvest stopped at the while test by the count
\* limit alone, with calls to spare.
C14_Witness ==
  /\ ~Windowed
  /\ pc = "loop"
  /\ stop_fetching
  /\ failed_fetch = None
  /\ Len(all_news_items) >= news_count_limit
  /\ api_call_num < MAX_API_CALLS

\* A windowed harvest sends a request with more items kept than
\* news_count_limit.
C14_WindowedBeyondLimit ==
  Windowed /\ FollowUpRequest /\ Len(all_news_items) > news_count_limit

\* The step reads one story div of the given kind.
ReadsDiv(kind) == pc = "stories" /\ last_div' = Some(kind)

\* The step leaves what is kept, what is marked seen and the flag as they
\* are, and the for loop goes on to the next div of the page, if any.
DivPassedOver ==
  /\ all_news_items' = all_news_items
  /\ processed_news_ids' = processed_news_ids
  /\ stop_fetching' = stop_fetching
  /\ pc' = IF stories_left > 1 THEN "stories" ELSE "after_batch"

\* C15: a story div whose time does not parse is passed over: it is not
\* kept, not marked seen, not counted in the batch minimum; the for loop
\* goes on with the next div and the harvest is not stopped by it.
C15_UnparsedTimeIsLocal ==
  [][ReadsDiv("no_time") =>
       (DivPassedOver /\ UNCHANGED earliest_valid_ts_in_batch_for_fallback)]_vars

\* C15 witness: a div whose time did not parse has been read, another div of
\* the page is still to be read, and the harvest goes on.
C15_Witness ==
  /\ pc = "stories"
  /\ last_div = Some("no_time")
  /\ stories_left >= 1
  /\ ~stop_fetching

\* C16: in a windowed harvest a story div whose time is later than the
\* target day's end is passed over: it is not kept, not marked seen; the for
\* loop goes on with the next div and the harvest is not stopped by it.
C16_NewerIsPassedOver ==
  [][(Windowed /\ ReadsDiv("newer")) => DivPassedOver]_vars

\* C16 witness: a div later than the target day has been read after an item
\* was kept, another div of the page is still to be read, and the harvest
\* goes on.
C16_Witness ==
  /\ Windowed
  /\ pc = "stories"
  /\ last_div = Some("newer")
  /\ stories_left >= 1
  /\ ~stop_fetching
  /\ Len(all_news_items) >= 1

\* C17: when no token is supplied and get_initial_cookies_and_xsrf yields
\* none, the harvest sends no request and returns the empty list.
C17_AuthFailurePrecedesFetch ==
  handshake_failed =>
    /\ pc = "aborted"
    /\ requests = <<>>
    /\ api_call_num = 0
    /\ result = <<>>

\* C17 witness: the handshake has failed in a harvest whose target day is
\* valid.
C17_Witness ==
  /\ handshake_failed
  /\ pc = "aborted"
  /\ Truthy(target_day_start_ts)

\* C18: the first request of a windowed harvest carries the target day's end
\* plus one (1749704400 for 20250611), that of an unbounded harvest the
\* clock's value at the start.
C18_InitialCursor ==
  requests # <<>> =>
    /\ Windowed => requests[1] = Val(TargetDayWindows[target_date_str].end) + 1
    /\ target_date_str = Date20250611 => requests[1] = 1749704400
    /\ ~Windowed => requests[1] = ClockNow

\* C18 witness: the first request of a windowed harvest is in flight.
C18_Witness ==
  /\ Windowed
  /\ pc = "awaiting"
  /\ Len(requests) = 1

\* A string of the form YYYYMMDD that names a day of the calendar.
ValidYYYYMMDD(s) ==
  /\ Len(s) = 8
  /\ DateYear(s) >= 1
  /\ (s[5] * 10 + s[6]) \in 1..12
  /\ (s[7] * 10 + s[8]) \in 1..DaysInMonth(DateYear(s), s[5] * 10 + s[6])

\* Midnight of the day s names, read as an instant of UTC, in epoch seconds.
NaiveMidnight(s) ==
  (ToOrdinal(DateYear(s), s[5] * 10 + s[6], s[7] * 10 + s[8]) - EPOCH_ORDINAL)
    * SECONDS_PER_DAY

\* C19: for every valid calendar day the window starts five hours after the
\* day's naive midnight and ends 86399 seconds after its start; for 20250611
\* it is 1749618000 to 1749704399.
C19_WindowCalculation ==
  (pc # "start" /\ ValidYYYYMMDD(target_date_str)) =>
    /\ target_day_start_ts = Some(NaiveMidnight(target_date_str) + 18000)
    /\ target_day_end_ts = Some(Val(target_day_start_ts) + 86399)
    /\ target_date_str = Date20250611 =>
         (target_day_start_ts = Some(1749618000) /\ target_day_end_ts = Some(1749704399))

\* C20: when the target date string is not a valid YYYYMMDD date, the window
\* is not computed, no request is sent and the empty list is returned.
C20_MalformedTargetDate ==
  (pc # "start" /\ Windowed /\ ~ValidYYYYMMDD(target_date_str)) =>
    /\ pc = "aborted"
    /\ target_day_start_ts = None
    /\ target_day_end_ts = None
    /\ requests = <<>>
    /\ result = <<>>

\* An instant, in epoch seconds, is the given clock reading at UTC-5.
IsAtUtcMinus5(instant, year, month, day, hour, minute) ==
  /\ (instant - 18000) \div 86400 = ToOrdinal(year, month, day) - EPOCH_ORDINAL
  /\ (instant - 18000) % 86400 = hour * 3600 + minute * 60

\* The year a text means: the one it names, or the current one.
TextYear(t) == IF t.year = None THEN CurrentYear ELSE Val(t.year)

\* The hour of the day a text's clock time means.
TextHour(t) ==
  IF t.ampm = "PM" /\ Val(t.hour) < 12 THEN Val(t.hour) + 12
  ELSE IF t.ampm = "AM" /\ Val(t.hour) = 12 THEN 0
  ELSE Val(t.hour)

\* A text that names a day of the calendar and, if it holds AM or PM, an
\* hour of the 12-hour clock.
WellFormedText(t) ==
  /\ t # NoText
  /\ t.words_known
  /\ t.day <= DaysInMonth(TextYear(t), t.month)
  /\ t.ampm # "" => (t.hour # None /\ Val(t.hour) \in 1..12)

\* "Tue Jun 10, 5:00PM" and "Sat Jun 10, 2023".
TextJun10At5PM ==
  [year |-> None, month |-> 6, day |-> 10, hour |-> Some(5), minute |-> 0,
   ampm |-> "PM", tzoffset |-> None, words_known |-> TRUE]
TextJun10Of2023 ==
  [year |-> Some(2023), month |-> 6, day |-> 10, hour |-> None, minute |-> 0,
   ampm |-> "", tzoffset |-> None, words_known |-> TRUE]

\* C21: a text with a clock time, no offset and no year resolves to that
\* clock time at UTC-5 in the current year ("Tue Jun 10, 5:00PM" in 2025 to
\* 2025-06-10T22:00:00Z); a text with a date, no clock time and no offset
\* resolves to 12:00 at UTC-5 of that date ("Sat Jun 10, 2023" to
\* 2023-06-10T17:00:00Z).
C21_TimestampNormalization ==
  (parse_result.returned /\ WellFormedText(date_str) /\ date_str.tzoffset = None) =>
    /\ parse_result.value # None
    /\ (date_str.hour # None /\ date_str.year = None) =>
         IsAtUtcMinus5(Val(parse_result.value), CurrentYear, date_str.month,
                       date_str.day, TextHour(date_str), date_str.minute)
    /\ date_str.hour = None =>
         IsAtUtcMinus5(Val(parse_result.value), TextYear(date_str), date_str.month,
                       date_str.day, 12, 0)
    /\ (date_str = TextJun10At5PM /\ CurrentYear = 2025) =>
         parse_result.value = Some(1749592800)
    /\ date_str = TextJun10Of2023 => parse_result.value = Some(1686416400)

\* The second of the day, on the clock of the text's offset (UTC-5 when it
\* names none), of the instant returned.
ReturnedSecondOfDay ==
  (Val(parse_result.value)
     + (IF date_str.tzoffset = None THEN 0 - 18000 ELSE Val(date_str.tzoffset))) % 86400

\* C22: the time of day is replaced by 12:00 exactly when the text holds
\* neither an AM or PM token nor a clock time; a text with a 24-hour clock
\* time and no AM or PM token keeps its clock time.
C22_NoonOnlyForDateOnly ==
  (parse_result.returned /\ WellFormedText(date_str)) =>
    /\ parse_result.value # None
    /\ ReturnedSecondOfDay =
         IF date_str.hour = None THEN 12 * 3600
         ELSE TextHour(date_str) * 3600 + date_str.minute * 60

\* The ids of a list of items.
IdsOf(items) == {items[k].id : k \in 1..Len(items)}

\* C23: a harvest's result depends on its own arguments, clock and pages
\* only: in every call, the first or the second of a process, the loop
\* starts with nothing kept and nothing seen, and what is kept and seen is
\* what the history of this call's pages alone says it is to keep, in the
\* same order.
C23_FreshStateEveryCall ==
  /\ (pc = "loop" /\ api_call_num = 0) =>
       /\ all_news_items = <<>>
       /\ processed_news_ids = {}
       /\ ~stop_fetching
       /\ current_before_timestamp = InitialBefore(WindowOf(target_date_str))
  /\ pc \in {"loop", "awaiting", "stories", "after_batch", "done"} =>
       /\ all_news_items = expected
       /\ processed_news_ids = IdsOf(expected)
  /\ pc = "done" => result = expected
  /\ pc = "aborted" => result = <<>>

\* C23 witness: the second call of the process has returned an item.
C23_Witness ==
  /\ calls = 2
  /\ pc = "done"
  /\ Len(result) >= 1

\* C24: a story div whose feed name is not the accepted one is passed over
\* whatever its time, older than the target day included: it is not kept,
\* not marked seen, not counted in the batch minimum, and it does not stop
\* the harvest.
C24_FeedNamePreFilter ==
  [][ReadsDiv("other_feed") =>
       (/\ DivPassedOver
        /\ UNCHANGED <<earliest_valid_ts_in_batch_for_fallback, older_seen_on>>
        /\ last_ts' = None)]_vars

\* C24 witness: in a windowed harvest a div of another feed has been read,
\* another div of the page is still to be read, and the harvest goes on.
C24_Witness ==
  /\ Windowed
  /\ pc = "stories"
  /\ last_div = Some("other_feed")
  /\ stories_left >= 1
  /\ ~stop_fetching

\* C25: at every point of the loop and at the return, what has been kept is
\* exactly, in reading order, the first occurrence of every div read so far
\* that has an id, the accepted feed name and a time, and lies in the target
\* day when there is one; without a target date no item is left out for its
\* time and none stops the harvest as older than the target day.
C25_AcceptanceCompleteness ==
  /\ pc \in {"loop", "awaiting", "stories", "after_batch"} => all_news_items = expected
  /\ pc = "done" => result = expected
  /\ (pc \notin {"start", "aborted"} /\ ~Windowed) =>
       /\ older_seen_on = None
       /\ last_div \notin {Some("older"), Some("newer"), Some("in_day")}
       /\ (last_div = Some("timed") /\ pc \in {"stories", "after_batch"}) =>
            /\ Len(all_news_items) >= 1
            /\ Val(earliest_valid_ts_in_batch_for_fallback) <= Val(last_ts)

\* C25 witness: a harvest without a target date has returned an item after
\* reading more than one page.
C25_Witness ==
  /\ pc = "done"
  /\ Len(result) >= 1
  /\ ~Windowed
  /\ Len(requests) >= 2

\* C26: after every story div read, processed_news_ids is exactly the set of
\* the ids of the items of all_news_items, and has as many members as
\* all_news_items has items.
C26_SeenSetConsistency ==
  pc \in {"loop", "awaiting", "stories", "after_batch"} =>
    /\ processed_news_ids = IdsOf(all_news_items)
    /\ Cardinality(processed_news_ids) = Len(all_news_items)

\* C26 witness: in a windowed harvest a div of the accepted feed newer than
\* the target day has been read and not kept, after another was kept.
C26_Witness ==
  /\ pc \in {"stories", "after_batch"}
  /\ last_div = Some("newer")
  /\ Len(all_news_items) = 1

\* C27: the harvest reports that it reached MAX_API_CALLS only when the
\* call limit is what ended the loop: a harvest whose loop was ended by
\* stop_fetching (an item older than the target day, a failed fetch, a page
\* without content, the count limit) does not report it, on whichever page
\* it stopped.
C27_SafetyLimitReportedOnlyWhenReached ==
  ReachedMaxCallsReported => ~stop_fetching

\* The time of the div just read was resolved (the div had a link, an id,
\* the accepted feed name and a time that parses).
TimeResolved(div) == div \in {Some("timed"), Some("older"), Some("newer"), Some("in_day")}

\* C28: the batch minimum is None when a page arrives; every div whose time
\* is resolved makes it the smaller of itself and that time, whether the
\* item is kept, repeats an id, is newer than the target day or is the one
\* older than the target day that stops the harvest; every other div leaves
\* it as it is.  So at the end of the page it is the least resolved time of
\* the divs read, and None when there was none.
C28_BatchMinimum ==
  [][/\ pc = "awaiting" /\ pc' \in {"stories", "after_batch"} =>
          earliest_valid_ts_in_batch_for_fallback' = None
     /\ pc = "stories" =>
          /\ TimeResolved(last_div') <=> last_ts' # None
          /\ last_ts' = None => UNCHANGED earliest_valid_ts_in_batch_for_fallback
          /\ last_ts' # None =>
               earliest_valid_ts_in_batch_for_fallback' =
                 IF earliest_valid_ts_in_batch_for_fallback = None
                 THEN last_ts'
                 ELSE IF Val(last_ts') < Val(earliest_valid_ts_in_batch_for_fallback)
                 THEN last_ts'
                 ELSE earliest_valid_ts_in_batch_for_fallback]_vars

\* C28 witness: a page has ended at the item older than the target day,
\* after an item of the page that was kept, and the batch minimum is the
\* older item's time.
C28_Witness ==
  /\ pc = "after_batch"
  /\ last_div = Some("older")
  /\ stories_left = 0
  /\ earliest_valid_ts_in_batch_for_fallback = last_ts
  /\ Len(all_news_items) = 1
  /\ Len(requests) = 1

\* C29: when a windowed harvest returns, the final filter removes nothing:
\* the list returned is the list the loop had kept, item for item, and at
\* every point of the loop the filter would leave the kept list as it is.
C29_FinalFilterIsNoOp ==
  [][Windowed =>
       /\ (pc # "done" /\ pc' = "done") =>
            /\ result' = all_news_items
            /\ all_news_items' = all_news_items
       /\ pc \in {"loop", "awaiting", "stories", "after_batch"} =>
            FinalFilter(all_news_items) = all_news_items]_vars

\* C29 witness: a windowed harvest has returned two items after it met an
\* item older than the target day.
C29_Witness ==
  /\ Windowed
  /\ pc = "done"
  /\ Len(result) = 2
  /\ older_seen_on # None

\* The step appends to all_news_items an item with time ts whose id had not
\* been seen, and marks the id seen.
AppendsItemAt(ts) ==
  /\ Len(all_news_items') = Len(all_news_items) + 1
  /\ SubSeq(all_news_items', 1, Len(all_news_items)) = all_news_items
  /\ all_news_items'[Len(all_news_items')].published_timestamp_utc = ts
  /\ all_news_items'[Len(all_news_items')].id \notin processed_news_ids
  /\ processed_news_ids' =
       processed_news_ids \cup {all_news_items'[Len(all_news_items')].id}

\* C30: the two ends of the target day belong to it.  For a div of the
\* accepted feed read with resolved time ts: the harvest is stopped exactly
\* when ts is less than the day's start; an item from the start to the end,
\* both included, is appended unless its id has been seen, and always when
\* no id has been seen yet; an item later than the end is not appended and
\* does not stop the harvest.  At the return the final filter keeps the kept
\* items whose time is the day's first or last second.
C30_WindowBoundsInclusive ==
  [][/\ (Windowed /\ pc = "stories" /\ last_ts' # None) =>
          LET ts == Val(last_ts')
              start == Val(target_day_start_ts)
              end == Val(target_day_end_ts)
          IN  /\ ~stop_fetching
              /\ stop_fetching' <=> ts < start
              /\ ts < start => UNCHANGED <<all_news_items, processed_news_ids>>
              /\ (start <= ts /\ ts <= end) =>
                   /\ UNCHANGED older_seen_on
                   /\ \/ AppendsItemAt(ts)
                      \/ /\ processed_news_ids # {}
                         /\ UNCHANGED <<all_news_items, processed_news_ids>>
              /\ ts > end =>
                   UNCHANGED <<all_news_items, processed_news_ids, older_seen_on>>
     /\ (Windowed /\ pc # "done" /\ pc' = "done") =>
          \A k \in 1..Len(all_news_items) :
            all_news_items[k].published_timestamp_utc
                \in {Val(target_day_start_ts), Val(target_day_end_ts)}
              => \E j \in 1..Len(result') : result'[j] = all_news_items[k]]_vars

\* C30 witness: an item at the last second of the target day has just been
\* appended after an item at its first second, and the harvest goes on.
C30_Witness ==
  /\ Windowed
  /\ pc \in {"stories", "after_batch"}
  /\ ~stop_fetching
  /\ last_ts = target_day_end_ts
  /\ Len(all_news_items) = 2
  /\ all_news_items[1].published_timestamp_utc = Val(target_day_start_ts)
  /\ all_news_items[2].published_timestamp_utc = Val(target_day_end_ts)

\* C31: stopping removes nothing.  The step that sets stop_fetching (an item
\* older than the target day, a failed fetch, a page without content, the
\* count limit) leaves all_news_items as it is; once the flag is set the
\* list does not change before the return; and the return, whether reached
\* with the flag set or at the call limit, gives back the kept list whole.
C31_TerminationKeepsAccepted ==
  [][/\ (pc \in {"awaiting", "stories", "after_batch"} /\ ~stop_fetching /\ stop_fetching') =>
          all_news_items' = all_news_items
     /\ (pc \in {"loop", "awaiting", "stories", "after_batch"} /\ stop_fetching /\ pc' # "done") =>
          all_news_items' = all_news_items
     /\ (pc \in {"loop", "after_batch"} /\ pc' = "done") =>
          /\ result' = all_news_items
          /\ all_news_items' = all_news_items]_vars

\* C31 witness: a harvest stopped on its second page by an item older than
\* the target day has returned two items.
C31_Witness ==
  /\ pc = "done"
  /\ stop_fetching
  /\ older_seen_on = Some(2)
  /\ Len(requests) = 2
  /\ Len(result) = 2

\* C32: all_news_items starts empty and grows only at its end, by one item
\* at a time: at every step of the loop the list before the step is a prefix
\* of the list after it, and the list returned begins with it.  So the
\* result lists the items in the order in which they were first kept: by
\* page, then by place in the page.
C32_AppendOnly ==
  [][/\ (pc = "start" /\ pc' = "loop") => all_news_items' = <<>>
     /\ pc \in {"loop", "awaiting", "stories", "after_batch"} =>
          /\ Len(all_news_items') \in {Len(all_news_items), Len(all_news_items) + 1}
          /\ SubSeq(all_news_items', 1, Len(all_news_items)) = all_news_items
          /\ pc' = "done" => SubSeq(result', 1, Len(all_news_items)) = all_news_items
          /\ Len(all_news_items') = Len(all_news_items) + 1 =>
               /\ pc = "stories"
               /\ all_news_items'[Len(all_news_items')].published_timestamp_utc = Val(last_ts')]_vars

\* C32 witness: on the second page an item at the end of the target day has
\* just been kept behind an item at its start: the list is in the order of
\* keeping, not of time.
C32_Witness ==
  /\ Windowed
  /\ pc \in {"stories", "after_batch"}
  /\ Len(requests) = 2
  /\ last_ts = target_day_end_ts
  /\ Len(all_news_items) = 2
  /\ all_news_items[1].published_timestamp_utc = Val(target_day_start_ts)
  /\ all_news_items[2].published_timestamp_utc = Val(target_day_end_ts)

\* A stopping condition has fired on the page in hand: an item older than the
\* target day was met, the page yielded no story div and carried no
\* 'timestamp', or the items kept have reached the count limit of unbounded
\* mode.  (A failed fetch never reaches the end of a batch.)
StoppingConditionFired ==
  \/ stop_fetching
  \/ older_seen_on # None
  \/ (PageWithoutStories /\ response_json.timestamp.kind = "absent")
  \/ CountLimitReached(all_news_items)

\* C33: every request but the first is sent after exactly one delay more
\* than the request before it, and the harvest sleeps only at the end of a
\* page on which no stopping condition has fired.
C33_InterPageDelay ==
  [][/\ (pc = "loop" /\ pc' = "awaiting") => delays = Len(requests)
     /\ delays' # delays =>
          /\ delays' = delays + 1
          /\ pc = "after_batch"
          /\ ~StoppingConditionFired]_vars

\* C34: whatever the order of the lines, a bullet that continues a list of
\* the current commodity finds current_list naming one of the commodity's
\* two lists, key_drivers or reverse_factors, never a list of the summary,
\* and parse_file raises no KeyError.
C34_ListContextAlwaysValid ==
  /\ branch = Some("continuation") => Val(current_list) \in CommodityListKeys
  /\ parse_error = None

\* The commodity dicts of a self.data value, by place: category and index.
CommodityPlaces(d) ==
  UNION {{[category |-> d.commodities[k].category, index |-> i] :
            i \in 1..Len(d.commodities[k].items)} : k \in 1..Len(d.commodities)}

\* The list of a category in a self.data value, and the dict at a place.
ItemsOf(d, name) ==
  d.commodities[CHOOSE k \in 1..Len(d.commodities) : d.commodities[k].category = name].items
DictAt(d, place) == ItemsOf(d, place.category)[place.index]

\* C35: a line changes no commodity dict but the one started last, which is
\* the last element of the list of the current category; after a '####'
\* header there is no current commodity, and no commodity dict changes
\* until a numbered line has started a new one.
C35_DetailGoesToLastCommodity ==
  [][/\ \A place \in CommodityPlaces(data) :
          /\ place \in CommodityPlaces(data')
          /\ DictAt(data', place) # DictAt(data, place) =>
               /\ current_commodity = Some(place)
               /\ current_category = Some(place.category)
               /\ place.index = Len(ItemsOf(data, place.category))
               /\ \A other \in CommodityPlaces(data) :
                    DictAt(data, place).name <= DictAt(data, other).name
     /\ branch' = Some("category") => current_commodity' = None
     /\ (current_commodity = None /\ current_commodity' # None) =>
          branch' = Some("new_commodity")]_vars

\* C35 witness: the price line has been read for the commodity of the second
\* category, and the commodity of the first category is as it was started.
C35_Witness ==
  /\ branch = Some("price")
  /\ Len(data.commodities) = 2
  /\ Len(data.commodities[1].items) = 1
  /\ Len(data.commodities[2].items) = 1
  /\ data.commodities[1].items[1].price_movement = 0
  /\ data.commodities[2].items[1].price_movement # 0
  /\ current_commodity = Some([category |-> data.commodities[2].category, index |-> 1])

\* The generation of the briefing failed: the key is not configured, or the
\* API call raises.
GenerationFailed == ~DEEPSEEK_API_KEY \/ api_call.raises

\* C36: when the generation failed, the briefing text is written to the
\* error file and never to the normal file.
C36_FailureGoesToErrorFile ==
  GenerationFailed =>
    /\ \A k \in 1..Len(files) : files[k].name = ErrorFileName
    /\ briefing_filename # Some(NormalFileName)

====
